---- MODULE Spec2Model ----
(***************************************************************************)
(* Recipe lifecycle and local persistence of src/index.tsx: the recipes    *)
(* kept under the localStorage key 'savedRecipes', the module variable     *)
(* currentRecipe, the rendered recipe card with its click handlers, the    *)
(* manual add form and the generation request.                             *)
(*                                                                         *)
(* A JavaScript string is a sequence of one-character strings, a string[]  *)
(* a sequence of those, and an object a function from its own keys to      *)
(* their values: a key the object lacks is not in its DOMAIN.              *)
(***************************************************************************)
EXTENDS Integers, Sequences, FiniteSets, TLC

\* ------------------------------------------------------------------ bounds
MaxStore == 2        \* recipes the collection may hold
MaxEdits == 1        \* save-edit handlers suspended in readFileAsDataURL
MaxPending == 2      \* generation requests in flight

\* ------------------------------------------------------------- JS strings
Whitespace == {" ", "\n"}

Undefined == <<"#undefined">>

Null == [kind |-> "null"]

LowerChar(c) == IF c = "A" THEN "a" ELSE IF c = "B" THEN "b" ELSE c

toLowerCase(s) == [i \in 1..Len(s) |-> LowerChar(s[i])]

RECURSIVE trimStart(_)
trimStart(s) ==
    IF s # <<>> /\ Head(s) \in Whitespace THEN trimStart(Tail(s)) ELSE s

RECURSIVE trimEnd(_)
trimEnd(s) ==
    IF s # <<>> /\ s[Len(s)] \in Whitespace
    THEN trimEnd(SubSeq(s, 1, Len(s) - 1))
    ELSE s

trim(s) == trimEnd(trimStart(s))

\* value.split('\n'): the pieces between line feeds, the empty ones included
RECURSIVE splitFrom(_, _, _)
splitFrom(s, i, piece) ==
    IF i > Len(s) THEN <<piece>>
    ELSE IF s[i] = "\n" THEN <<piece>> \o splitFrom(s, i + 1, <<>>)
    ELSE splitFrom(s, i + 1, Append(piece, s[i]))

split(s) == splitFrom(s, 1, <<>>)

\* lines.join('\n')
RECURSIVE join(_)
join(lines) ==
    IF lines = <<>> THEN <<>>
    ELSE IF Len(lines) = 1 THEN lines[1]
    ELSE lines[1] \o <<"\n">> \o join(Tail(lines))

RECURSIVE filterNonEmpty(_)
filterNonEmpty(lines) ==
    IF lines = <<>> THEN <<>>
    ELSE IF Head(lines) = <<>> THEN filterNonEmpty(Tail(lines))
    ELSE <<Head(lines)>> \o filterNonEmpty(Tail(lines))

\* value.split('\n').map(i => i.trim()).filter(i => i !== '')
parseLines(text) ==
    LET pieces == split(text)
    IN  filterNonEmpty([i \in 1..Len(pieces) |-> trim(pieces[i])])

\* `${v}` in a template literal
templateText(r, f) ==
    IF f \in DOMAIN r THEN r[f] ELSE <<"u", "n", "d", "e", "f", "i", "n", "e", "d">>

\* ------------------------------------------------------------ Recipe values
\* the object literal of a Recipe. No code here tells a key that holds undefined
\* from a key the object lacks (recipes are only read by property), so
\* imageUrl: undefined is written as the object without the key
Recipe(name, description, ingredients, instructions, imageUrl) ==
    LET keys == {"recipeName", "description", "ingredients", "instructions"}
                    \cup (IF imageUrl = Undefined THEN {} ELSE {"imageUrl"})
    IN  [f \in keys |->
            CASE f = "recipeName" -> name
              [] f = "description" -> description
              [] f = "ingredients" -> ingredients
              [] f = "instructions" -> instructions
              [] f = "imageUrl" -> imageUrl]

\* recipe.imageUrl, Undefined both for a missing key and for an undefined value
imageUrlOf(r) == IF "imageUrl" \in DOMAIN r THEN r["imageUrl"] ELSE Undefined

\* Variant of jsonRoundTrip that loses the image on the way: C7 tells it apart.
jsonRoundTrip_DropsImage(r) == [f \in DOMAIN r \ {"imageUrl"} |-> r[f]]

\* JSON.parse(JSON.stringify(r)): a key whose value is undefined is dropped
jsonRoundTrip(r) ==
    LET kept == {f \in DOMAIN r : ~(f = "imageUrl" /\ r[f] = Undefined)}
    IN  [f \in kept |-> r[f]]

jsonRoundTripAll(recipes) == [i \in 1..Len(recipes) |-> jsonRoundTrip(recipes[i])]

\* ------------------------------------------------------------------- state
VARIABLES
    localStorage,    \* the item 'savedRecipes': [set, value], value the stored array
    currentRecipe,   \* let currentRecipe: a Recipe object or Null
    card,            \* recipeOutput: blank, an error message or a recipe card
    edits,           \* originalRecipeForUpdate of each save-edit handler awaiting
                     \* readFileAsDataURL
    pending,         \* generateContent calls awaiting their response
    loading,         \* generateButton.disabled, as set by setLoading
    outcome          \* how the handler that ran last ended: "nameExists" (the alert
                     \* of saveRecipeToStorage), "newNameExists" (the alert of the
                     \* save-edit handler), "edited" (the save-edit handler went on to
                     \* update and render) or "none"; the alerts on an unreadable
                     \* image, a missing field or an empty prompt are not told apart

vars == <<localStorage, currentRecipe, card, edits, pending, loading, outcome>>

BlankCard == [kind |-> "blank", orig |-> Null, saveDisabled |-> FALSE, editing |-> FALSE]

ErrorCard == [kind |-> "error", orig |-> Null, saveDisabled |-> FALSE, editing |-> FALSE]

\* ---------------------------------------------------- localStorage functions
getSavedRecipes(ls) == IF ls.set THEN ls.value ELSE <<>>

\* localStorage.setItem('savedRecipes', JSON.stringify(recipes))
setSavedRecipes(recipes) == [set |-> TRUE, value |-> jsonRoundTripAll(recipes)]

\* Variant of isRecipeSaved that compares names as written: C1 tells it apart.
isRecipeSaved_CaseSensitive(ls, recipeName) ==
    \E i \in 1..Len(getSavedRecipes(ls)) :
        getSavedRecipes(ls)[i].recipeName = recipeName

\* recipes.some(r => r.recipeName.toLowerCase() === recipeName.toLowerCase())
isRecipeSaved(ls, recipeName) ==
    \E i \in 1..Len(getSavedRecipes(ls)) :
        toLowerCase(getSavedRecipes(ls)[i].recipeName) = toLowerCase(recipeName)

\* Variant of saveRecipeToStorage that pushes without the name test: C2 tells
\* it apart.
saveRecipeToStorage_Unchecked(ls, recipe) ==
    setSavedRecipes(Append(getSavedRecipes(ls), recipe))

\* the storage after saveRecipeToStorage(recipe); unchanged on the alert branch
saveRecipeToStorage(ls, recipe) ==
    IF ~isRecipeSaved(ls, recipe.recipeName)
    THEN setSavedRecipes(Append(getSavedRecipes(ls), recipe))
    ELSE ls

\* Variant of findIndex that compares names as written: C4 tells it apart.
findIndex_CaseSensitive(recipes, recipeName) ==
    LET hits == {i \in 1..Len(recipes) : recipes[i].recipeName = recipeName}
    IN  IF hits = {} THEN 0 ELSE CHOOSE i \in hits : \A j \in hits : i <= j

\* recipes.findIndex(...): the first index matching case-insensitively, 0 for -1
findIndex(recipes, recipeName) ==
    LET hits == {i \in 1..Len(recipes) :
                    toLowerCase(recipes[i].recipeName) = toLowerCase(recipeName)}
    IN  IF hits = {} THEN 0 ELSE CHOOSE i \in hits : \A j \in hits : i <= j

\* Variant of updateRecipeInStorage that pushes the recipe when it finds no
\* entry to overwrite: C5 tells it apart.
updateRecipeInStorage_Upsert(ls, originalRecipeName, updatedRecipe) ==
    LET recipes == getSavedRecipes(ls)
        recipeIndex == findIndex(recipes, originalRecipeName)
    IN  IF recipeIndex > 0
        THEN setSavedRecipes([recipes EXCEPT ![recipeIndex] = updatedRecipe])
        ELSE setSavedRecipes(Append(recipes, updatedRecipe))

updateRecipeInStorage(ls, originalRecipeName, updatedRecipe) ==
    LET recipes == getSavedRecipes(ls)
        recipeIndex == findIndex(recipes, originalRecipeName)
    IN  IF recipeIndex > 0
        THEN setSavedRecipes([recipes EXCEPT ![recipeIndex] = updatedRecipe])
        ELSE ls

\* Variant of filterOut that drops the names matching case-insensitively: C6
\* tells it apart.
RECURSIVE filterOut_CaseInsensitive(_, _)
filterOut_CaseInsensitive(recipes, recipeName) ==
    IF recipes = <<>> THEN <<>>
    ELSE IF toLowerCase(Head(recipes).recipeName) # toLowerCase(recipeName)
         THEN <<Head(recipes)>> \o filterOut_CaseInsensitive(Tail(recipes), recipeName)
         ELSE filterOut_CaseInsensitive(Tail(recipes), recipeName)

RECURSIVE filterOut(_, _)
filterOut(recipes, recipeName) ==
    IF recipes = <<>> THEN <<>>
    ELSE IF Head(recipes).recipeName # recipeName
         THEN <<Head(recipes)>> \o filterOut(Tail(recipes), recipeName)
         ELSE filterOut(Tail(recipes), recipeName)

removeRecipeFromStorage(ls, recipeName) ==
    setSavedRecipes(filterOut(getSavedRecipes(ls), recipeName))

\* ------------------------------------------------------------------ inputs
DataUrl == <<"i">>

\* the file picked in an <input type="file">: none, one that reads, one that fails
Files == {"none", "good", "bad"}

\* what the user may type into a name field
NameInputs == {<<" ">>, <<"a">>, <<"A", " ">>, <<"b">>}

\* what the user may type into the description, ingredients and instructions fields
BodyInputs ==
    { [description |-> <<"d", " ">>,
       ingredients |-> <<" ", "y", "\n", "\n", "x">>,
       instructions |-> <<"s">>] }

FormInputs ==
    { [recipeName |-> n, description |-> b.description,
       ingredients |-> b.ingredients, instructions |-> b.instructions] :
        n \in NameInputs, b \in BodyInputs }

PromptInputs == {<<" ">>, <<"p">>}

\* the sample ideas of the browse modal, none of them blank
sampleRecipeIdeas == {<<"p">>}

\* what generateContent may answer: a rejection, text that is no JSON, or a JSON
\* object holding some of the schema's properties
GeneratedFull ==
    [recipeName |-> <<"A">>, description |-> <<"d">>,
     ingredients |-> <<<<"y">>, <<"x">>>>, instructions |-> <<<<"s">>>>]

Without(r, f) == [g \in DOMAIN r \ {f} |-> r[g]]

Responses ==
    { [kind |-> "rejected", value |-> Null],
      [kind |-> "text", value |-> Null],
      [kind |-> "json", value |-> GeneratedFull],
      [kind |-> "json", value |-> Without(GeneratedFull, "description")],
      [kind |-> "json", value |-> Without(GeneratedFull, "recipeName")],
      [kind |-> "json", value |-> Without(GeneratedFull, "ingredients")],
      [kind |-> "json", value |-> Without(GeneratedFull, "instructions")] }

\* the answers that keep to recipeSchema
SchemaResponses ==
    {r \in Responses :
        r.kind = "json" =>
            {"recipeName", "description", "ingredients", "instructions"}
                \subseteq DOMAIN r.value}

\* ---------------------------------------------------------------- rendering
\* renderRecipe throws a TypeError while it builds the card when recipeName,
\* ingredients or instructions is undefined (.toLowerCase, .map, .replace)
renders(recipe) == {"recipeName", "ingredients", "instructions"} \subseteq DOMAIN recipe

\* currentRecipe after renderRecipe(recipe): assigned before anything can throw
renderRecipeCurrent(cur, recipe) == IF recipe = Null THEN cur ELSE recipe

\* recipeOutput after renderRecipe(recipe); left as it was when the call throws
renderRecipeCard(ls, crd, recipe) ==
    IF recipe = Null THEN BlankCard
    ELSE IF ~renders(recipe) THEN crd
    ELSE [kind |-> "recipe", orig |-> recipe,
          saveDisabled |-> isRecipeSaved(ls, recipe.recipeName), editing |-> FALSE]

\* the values the edit form of a card starts with
defaultForm(recipe) ==
    [recipeName |-> recipe.recipeName,
     description |-> templateText(recipe, "description"),
     ingredients |-> join(recipe.ingredients),
     instructions |-> join(recipe.instructions)]

\* the values the edit form of the card on display may hold when it is read
formValues(crd) ==
    IF crd.editing THEN FormInputs \cup {defaultForm(crd.orig)}
    ELSE {defaultForm(crd.orig)}

\* the Recipe literal built from a form's fields
recipeFromForm(form, imageUrl) ==
    Recipe(trim(form.recipeName), trim(form.description),
           parseLines(form.ingredients), parseLines(form.instructions), imageUrl)

Init ==
    /\ localStorage = [set |-> FALSE, value |-> <<>>]
    /\ currentRecipe = Null
    /\ card = BlankCard
    /\ edits = <<>>
    /\ pending = 0
    /\ loading = FALSE
    /\ outcome = "none"

\* ------------------------------------------------------------- generation
generateRecipe(prompt) ==
    IF trim(prompt) = <<>>
    THEN /\ outcome' = "none"
         /\ UNCHANGED <<localStorage, currentRecipe, card, edits, pending, loading>>
    ELSE /\ pending < MaxPending
         /\ loading' = TRUE
         /\ card' = renderRecipeCard(localStorage, ErrorCard, Null)
         /\ currentRecipe' = renderRecipeCurrent(currentRecipe, Null)
         /\ pending' = pending + 1
         /\ outcome' = "none"
         /\ UNCHANGED <<localStorage, edits>>

\* the form's submit through the generate button, which setLoading disables
SubmitForm(prompt) ==
    /\ ~loading
    /\ generateRecipe(prompt)

\* a sample idea of the browse modal: sets the prompt and dispatches submit
PickIdea ==
    \E idea \in sampleRecipeIdeas : generateRecipe(idea)

\* the rest of generateRecipe once generateContent has settled
Respond(response) ==
    /\ pending > 0
    /\ pending' = pending - 1
    /\ IF response.kind = "json"
       THEN /\ currentRecipe' = renderRecipeCurrent(currentRecipe, response.value)
            /\ card' = IF renders(response.value)
                       THEN renderRecipeCard(localStorage, card, response.value)
                       ELSE ErrorCard
       ELSE /\ card' = ErrorCard
            /\ UNCHANGED currentRecipe
    /\ loading' = FALSE
    /\ outcome' = "none"
    /\ UNCHANGED <<localStorage, edits>>

\* ------------------------------------------------------- recipe card handlers
\* a view button of the saved list, which renderSavedRecipes builds from storage
ViewSaved(i) ==
    /\ i \in 1..Len(getSavedRecipes(localStorage))
    /\ currentRecipe' = renderRecipeCurrent(currentRecipe, getSavedRecipes(localStorage)[i])
    /\ card' = renderRecipeCard(localStorage, card, getSavedRecipes(localStorage)[i])
    /\ outcome' = "none"
    /\ UNCHANGED <<localStorage, edits, pending, loading>>

\* a delete button of the saved list, confirmed
DeleteSaved(i) ==
    /\ i \in 1..Len(getSavedRecipes(localStorage))
    /\ localStorage' =
           removeRecipeFromStorage(localStorage, getSavedRecipes(localStorage)[i].recipeName)
    /\ outcome' = "none"
    /\ UNCHANGED <<currentRecipe, card, edits, pending, loading>>

\* save-recipe-btn: shown while the card is not in edit mode, clickable until disabled
SaveCurrent ==
    /\ card.kind = "recipe"
    /\ ~card.editing
    /\ ~card.saveDisabled
    /\ currentRecipe # Null
    /\ \/ isRecipeSaved(localStorage, currentRecipe.recipeName)
       \/ Len(getSavedRecipes(localStorage)) < MaxStore
    /\ localStorage' = saveRecipeToStorage(localStorage, currentRecipe)
    /\ card' = [card EXCEPT !.saveDisabled = TRUE]
    /\ outcome' = IF isRecipeSaved(localStorage, currentRecipe.recipeName)
                  THEN "nameExists" ELSE "none"
    /\ UNCHANGED <<currentRecipe, edits, pending, loading>>

\* edit-recipe-btn
EditRecipe ==
    /\ card.kind = "recipe"
    /\ ~card.editing
    /\ card' = [card EXCEPT !.editing = TRUE]
    /\ outcome' = "none"
    /\ UNCHANGED <<localStorage, currentRecipe, edits, pending, loading>>

\* cancel-edit-btn
CancelEdit ==
    /\ card.kind = "recipe"
    /\ card.editing
    /\ currentRecipe' = renderRecipeCurrent(currentRecipe, card.orig)
    /\ card' = renderRecipeCard(localStorage, card, card.orig)
    /\ outcome' = "none"
    /\ UNCHANGED <<localStorage, edits, pending, loading>>

\* Variant of commitEdit without the test of the new name: C3 tells it apart.
commitEdit_NoNameCheck(original, imageUrl, form) ==
    LET updatedRecipe == recipeFromForm(form, imageUrl)
    IN  /\ outcome' = "edited"
        /\ localStorage' =
               updateRecipeInStorage(localStorage, original.recipeName, updatedRecipe)
        /\ currentRecipe' = renderRecipeCurrent(currentRecipe, updatedRecipe)
        /\ card' = renderRecipeCard(localStorage', card, updatedRecipe)

\* save-edit-btn from the point where imageUrl is known: reads the edit form
\* that is in the document now, checks the new name, updates and renders
commitEdit(original, imageUrl, form) ==
    LET updatedRecipe == recipeFromForm(form, imageUrl)
    IN  IF /\ toLowerCase(updatedRecipe.recipeName) # toLowerCase(original.recipeName)
           /\ isRecipeSaved(localStorage, updatedRecipe.recipeName)
        THEN /\ outcome' = "newNameExists"
             /\ UNCHANGED <<localStorage, currentRecipe, card>>
        ELSE /\ outcome' = "edited"
             /\ localStorage' =
                    updateRecipeInStorage(localStorage, original.recipeName, updatedRecipe)
             /\ currentRecipe' = renderRecipeCurrent(currentRecipe, updatedRecipe)
             /\ card' = renderRecipeCard(localStorage', card, updatedRecipe)

\* save-edit-btn with no file picked: the handler runs to its end
SaveEditWith(form) ==
    /\ card.kind = "recipe"
    /\ card.editing
    /\ UNCHANGED <<edits, pending, loading>>
    /\ form \in formValues(card)
    /\ commitEdit(card.orig, imageUrlOf(card.orig), form)

SaveEdit ==
    /\ card.kind = "recipe"
    /\ \E form \in formValues(card) : SaveEditWith(form)

\* save-edit-btn with a file picked: the handler waits in readFileAsDataURL
SaveEditWithFile ==
    /\ card.kind = "recipe"
    /\ card.editing
    /\ Len(edits) < MaxEdits
    /\ edits' = Append(edits, card.orig)
    /\ outcome' = "none"
    /\ UNCHANGED <<localStorage, currentRecipe, card, pending, loading>>

RemoveAt(seq, i) == SubSeq(seq, 1, i - 1) \o SubSeq(seq, i + 1, Len(seq))

\* the read of a waiting save-edit handler fails (reader.onerror)
ResumeEditFailed(i) ==
    /\ i \in 1..Len(edits)
    /\ edits' = RemoveAt(edits, i)
    /\ outcome' = "none"
    /\ UNCHANGED <<localStorage, currentRecipe, card, pending, loading>>

\* the read of a waiting save-edit handler succeeds while no edit form is in the
\* document: getElementById gives null and the handler ends in a TypeError
ResumeEditNoForm(i) ==
    /\ i \in 1..Len(edits)
    /\ card.kind # "recipe"
    /\ edits' = RemoveAt(edits, i)
    /\ outcome' = "none"
    /\ UNCHANGED <<localStorage, currentRecipe, card, pending, loading>>

\* the read of a waiting save-edit handler succeeds (reader.onload)
ResumeEditWith(i, form) ==
    /\ i \in 1..Len(edits)
    /\ card.kind = "recipe"
    /\ edits' = RemoveAt(edits, i)
    /\ UNCHANGED <<pending, loading>>
    /\ form \in formValues(card)
    /\ commitEdit(edits[i], DataUrl, form)

ResumeEdit(i) ==
    /\ card.kind = "recipe"
    /\ \E form \in formValues(card) : ResumeEditWith(i, form)

\* ------------------------------------------------------------ manual add form
\* handleAddRecipe from the point where the image, if any, has been read: the
\* part before it reads and writes nothing but the file input
handleAddRecipe(file, form) ==
    LET newRecipe == recipeFromForm(form, IF file = "good" THEN DataUrl ELSE Undefined)
    IN  IF file = "bad"
        THEN /\ outcome' = "none"
             /\ UNCHANGED localStorage
        ELSE IF \/ newRecipe.recipeName = <<>>
                \/ Len(newRecipe.ingredients) = 0
                \/ Len(newRecipe.instructions) = 0
        THEN /\ outcome' = "none"
             /\ UNCHANGED localStorage
        ELSE /\ \/ isRecipeSaved(localStorage, newRecipe.recipeName)
                \/ Len(getSavedRecipes(localStorage)) < MaxStore
             /\ localStorage' = saveRecipeToStorage(localStorage, newRecipe)
             /\ outcome' = IF isRecipeSaved(localStorage, newRecipe.recipeName)
                           THEN "nameExists" ELSE "none"

AddRecipe(file, form) ==
    /\ UNCHANGED <<currentRecipe, card, edits, pending, loading>>
    /\ handleAddRecipe(file, form)

\* the handlers that read or write the saved recipes and the recipe card
Lifecycle ==
    \/ \E i \in 1..MaxStore : ViewSaved(i)
    \/ \E i \in 1..MaxStore : DeleteSaved(i)
    \/ SaveCurrent
    \/ EditRecipe
    \/ CancelEdit
    \/ SaveEdit
    \/ \E file \in Files, form \in FormInputs : AddRecipe(file, form)

\* save-edit with a picked file, which suspends the handler
Suspending ==
    \/ SaveEditWithFile
    \/ \E i \in 1..MaxEdits : ResumeEditFailed(i)
    \/ \E i \in 1..MaxEdits : ResumeEditNoForm(i)
    \/ \E i \in 1..MaxEdits : ResumeEdit(i)

\* The recipe lifecycle: every handler of the saved recipes and of the card,
\* suspended save-edit handlers included, with generation started from the
\* generate button and answered within recipeSchema.
Next ==
    \/ Lifecycle
    \/ Suspending
    \/ \E prompt \in PromptInputs : SubmitForm(prompt)
    \/ \E response \in SchemaResponses : Respond(response)

Spec == Init /\ [][Next]_vars

\* Generation: requests started from the generate button and from the browse
\* modal, answered in every way generateContent may answer, beside the handlers
\* of the card that run to their end.
GenNext ==
    \/ Lifecycle
    \/ \E prompt \in PromptInputs : SubmitForm(prompt)
    \/ PickIdea
    \/ \E response \in Responses : Respond(response)

GenSpec == Init /\ [][GenNext]_vars

\* ------------------------------------------------------------------ claims
\* Vocabulary of the claims, stated apart from the handlers' own tests.
Stored == getSavedRecipes(localStorage)

SameNameCI(a, b) == toLowerCase(a) = toLowerCase(b)

HeldBy(recipes, name) ==
    \E i \in 1..Len(recipes) : SameNameCI(recipes[i].recipeName, name)

FirstHeld(recipes, name) ==
    IF ~HeldBy(recipes, name) THEN 0
    ELSE CHOOSE i \in 1..Len(recipes) :
            /\ SameNameCI(recipes[i].recipeName, name)
            /\ \A j \in 1..(i - 1) : ~SameNameCI(recipes[j].recipeName, name)

ImageOfFile(file) == IF file = "good" THEN DataUrl ELSE Undefined

\* the recipes a caller may hand to the store: those of the add form, a
\* generated one, and the current recipe when it is one a card can show
AddArguments ==
    {recipeFromForm(form, ImageOfFile(file)) : form \in FormInputs, file \in {"none", "good"}}
        \cup {GeneratedFull}
        \cup (IF currentRecipe # Null /\ renders(currentRecipe) THEN {currentRecipe} ELSE {})

\* C1: no two stored recipes have names that are equal case-insensitively, in
\* every state reached by add, saveCurrent, save-edit and remove, also when
\* other handlers run while a save-edit handler waits for its image and when
\* the recipe it edits is no longer the stored one.
C1_UniqueNames ==
    \A i, j \in 1..Len(Stored) :
        i # j => ~SameNameCI(Stored[i].recipeName, Stored[j].recipeName)

\* a save-edit handler that had to wait for its image has updated and rendered
\* a recipe that is not among the two stored ones (its original was stale)
C1_Witness ==
    /\ outcome = "edited"
    /\ Len(Stored) = 2
    /\ imageUrlOf(currentRecipe) = DataUrl
    /\ ~HeldBy(Stored, currentRecipe.recipeName)

\* C2: adding a recipe R whose name some stored recipe holds case-insensitively
\* raises the duplicate-name alert and leaves the persisted collection exactly
\* as it was; otherwise R becomes the last entry and the earlier entries keep
\* their values and positions. This holds of saveRecipeToStorage on every
\* reachable collection, for the recipes of the add form, a generated recipe and
\* the current recipe (a repeated save of it included), and of every step of
\* the save button.
AddResult(ls, R) ==
    IF HeldBy(getSavedRecipes(ls), R.recipeName)
    THEN saveRecipeToStorage(ls, R) = ls
    ELSE getSavedRecipes(saveRecipeToStorage(ls, R)) = Append(getSavedRecipes(ls), R)

AddStep(R) ==
    IF HeldBy(Stored, R.recipeName)
    THEN localStorage' = localStorage /\ outcome' = "nameExists"
    ELSE /\ getSavedRecipes(localStorage') = Append(Stored, R)
         /\ outcome' = "none"

C2_AddContract ==
    /\ [](\A R \in AddArguments : AddResult(localStorage, R))
    /\ [][SaveCurrent => AddStep(currentRecipe)]_vars

\* an add was refused as a duplicate while two recipes are stored
C2_Witness ==
    /\ outcome = "nameExists"
    /\ Len(Stored) = 2

\* C3: a save-edit that changes the name to one that another stored recipe holds
\* case-insensitively raises the new-name alert and changes nothing: the
\* collection, the current recipe and the card stay as they were.
RenamesToHeld(original, updated) ==
    /\ ~SameNameCI(updated.recipeName, original.recipeName)
    /\ HeldBy(Stored, updated.recipeName)

C3_Step(original, updated) ==
    RenamesToHeld(original, updated) =>
        /\ localStorage' = localStorage
        /\ currentRecipe' = currentRecipe
        /\ card' = card
        /\ outcome' = "newNameExists"

\* every step of the save-edit handler, with the original it closed over, the
\* image it ends with and the form it read
EveryCommit(Post(_, _)) ==
    (card.kind = "recipe" /\ (card.editing \/ edits' # edits)) =>
        \A form \in formValues(card) :
            /\ SaveEditWith(form) =>
                   Post(card.orig, recipeFromForm(form, imageUrlOf(card.orig)))
            /\ \A i \in 1..Len(edits) :
                   ResumeEditWith(i, form) => Post(edits[i], recipeFromForm(form, DataUrl))

C3_DuplicateRename == [][EveryCommit(C3_Step)]_vars

\* a rename was refused while the card in edit mode shows a stored recipe
C3_Witness ==
    /\ outcome = "newNameExists"
    /\ card.kind = "recipe"
    /\ card.editing
    /\ HeldBy(Stored, card.orig.recipeName)
    /\ Len(Stored) = 2

\* C4: when a save-edit goes through on a recipe whose original name some stored
\* recipe holds, the collection keeps its length, the entry at the position of
\* the first stored recipe matching the original name case-insensitively is
\* exactly the edited recipe, every other entry is unchanged, no stored recipe
\* holds the original name afterwards if the new name differs from it
\* case-insensitively, and the edited recipe is the current recipe.
C4_Step(original, updated) ==
    LET at == FirstHeld(Stored, original.recipeName)
        after == getSavedRecipes(localStorage')
    IN  (at > 0 /\ ~RenamesToHeld(original, updated)) =>
            /\ Len(after) = Len(Stored)
            /\ after[at] = updated
            /\ \A j \in 1..Len(Stored) : j # at => after[j] = Stored[j]
            /\ ~SameNameCI(updated.recipeName, original.recipeName)
                   => ~HeldBy(after, original.recipeName)
            /\ currentRecipe' = updated

C4_EditInPlace == [][EveryCommit(C4_Step)]_vars

\* a save-edit went through on a stored recipe while two recipes are stored
C4_Witness ==
    /\ outcome = "edited"
    /\ Len(Stored) = 2
    /\ currentRecipe \in {Stored[1], Stored[2]}

\* C5 as claimed: a save-edit on a recipe whose original name no stored recipe
\* holds leaves the collection unchanged and does not make the edited recipe
\* the current recipe.
C5_Original_Step(original, updated) ==
    ~HeldBy(Stored, original.recipeName) =>
        /\ localStorage' = localStorage
        /\ currentRecipe' = currentRecipe

C5_Step(original, updated) ==
    ~HeldBy(Stored, original.recipeName) =>
        /\ localStorage' = localStorage
        /\ IF RenamesToHeld(original, updated)
           THEN /\ currentRecipe' = currentRecipe
                /\ card' = card
                /\ outcome' = "newNameExists"
           ELSE /\ currentRecipe' = updated
                /\ card'.kind = "recipe"
                /\ card'.orig = updated
                /\ ~card'.saveDisabled
                /\ outcome' = "edited"

NameArguments == {trim(n) : n \in NameInputs} \cup {<<"A">>, <<"B">>, <<"c">>}

HasExactly(recipes, name) == \E i \in 1..Len(recipes) : recipes[i].recipeName = name

\* C6: removeRecipeFromStorage(name) removes exactly the entries whose name is
\* name character for character and keeps the others in their order; if a
\* stored recipe had exactly that name, no stored recipe holds the name
\* afterwards, not even case-insensitively; a name that matches a stored one
\* only case-insensitively removes nothing and is still held; an absent name
\* leaves the collection unchanged. This holds on every reachable collection
\* and of every step of a delete button.
RemoveResult(ls, name) ==
    LET before == getSavedRecipes(ls)
        after == getSavedRecipes(removeRecipeFromStorage(ls, name))
        Kept(r) == r.recipeName # name
    IN  /\ after = SelectSeq(before, Kept)
        /\ HasExactly(before, name) => ~HeldBy(after, name)
        /\ (~HasExactly(before, name) /\ HeldBy(before, name))
               => (after = before /\ HeldBy(after, name))
        /\ ~HeldBy(before, name) => after = before

C6_Remove ==
    /\ [](\A name \in NameArguments : RemoveResult(localStorage, name))
    /\ [][\A i \in 1..Len(Stored) :
            DeleteSaved(i) =>
                /\ Len(getSavedRecipes(localStorage')) = Len(Stored) - 1
                /\ ~HeldBy(getSavedRecipes(localStorage'), Stored[i].recipeName)]_vars

\* a removal has emptied the collection: only removeRecipeFromStorage writes
\* an empty array
C6_Witness ==
    /\ localStorage.set
    /\ Stored = <<>>

\* C7: after saveRecipeToStorage(R) has added R, the list read back holds
\* exactly one entry equal to R in every field, the last one; and viewing a
\* saved recipe reads the list without changing what is persisted.
RoundTrip(ls, R) ==
    LET list == getSavedRecipes(saveRecipeToStorage(ls, R))
    IN  ~HeldBy(getSavedRecipes(ls), R.recipeName) =>
            /\ Cardinality({i \in 1..Len(list) : list[i] = R}) = 1
            /\ list[Len(list)] = R
            /\ imageUrlOf(list[Len(list)]) = imageUrlOf(R)

C7_RoundTrip ==
    /\ [](\A R \in AddArguments : RoundTrip(localStorage, R))
    /\ [][\A i \in 1..Len(Stored) : ViewSaved(i) => localStorage' = localStorage]_vars

\* the current recipe, which carries an image, was added as the second entry
C7_Witness ==
    /\ Len(Stored) = 2
    /\ Stored[2] = currentRecipe
    /\ imageUrlOf(currentRecipe) = DataUrl
    /\ outcome = "none"
    /\ card.kind = "recipe"
    /\ card.saveDisabled

\* C8 as claimed: while a generation request is in flight the current recipe is
\* absent.
C8_CurrentAbsentWhilePending == pending > 0 => currentRecipe = Null

HasRequiredFields(value) ==
    {"recipeName", "description", "ingredients", "instructions"} \subseteq DOMAIN value

\* C9 as claimed: an answer that parses and holds the four required fields
\* becomes the current recipe, without an image; any other answer ends in the
\* error message and does not become the current recipe.
C9_Step(response) ==
    IF response.kind = "json" /\ HasRequiredFields(response.value)
    THEN /\ currentRecipe' = response.value
         /\ imageUrlOf(currentRecipe') = Undefined
         /\ card'.kind = "recipe"
    ELSE /\ card'.kind = "error"
         /\ currentRecipe' = currentRecipe

C9_InvalidResponseRejected ==
    [][\A response \in Responses : Respond(response) => C9_Step(response)]_vars

\* C10 as claimed: every stored recipe has a non-empty name.
C10_NonEmptyNames == \A i \in 1..Len(Stored) : Stored[i].recipeName # <<>>

\* C11 as claimed: at most one generation request is pending at any time, and
\* while a request is pending the loading state is on (so loading is turned
\* off only when no request remains pending), whichever way the requests were
\* started, the sample ideas of the browse modal included.
C11_OneRequestWhileLoading ==
    /\ pending <= 1
    /\ pending > 0 => loading

====
